---- MODULE Spec2Model ----
(***************************************************************************)
(* Model of s3-sync (src/main.go): one-way synchronisation of a source     *)
(* bucket to a destination bucket.  main() runs syncBucketConfig, lists    *)
(* the source bucket page by page, then starts one errgroup goroutine per  *)
(* listed object; each goroutine acquires a slot of a weighted semaphore,  *)
(* heads the destination object, and either skips it or runs               *)
(* copyAndVerifyObject.  The remote service is the environment: every      *)
(* remote call is one step whose result is drawn from the results the      *)
(* service can give in the current state of the buckets.                   *)
(***************************************************************************)
EXTENDS Integers, Sequences, FiniteSets

\* ---------------------------------------------------------------- bounds
MaxObjs == 2            \* most objects in the source bucket
MaxConc == 1            \* largest "concurrency" value of the configuration file
PageSize == 1           \* objects the service returns per listing page

\* ------------------------------------------------------- program constants
DefaultConcurrency == 10

VARIABLES
    conc,       \* cfg.Concurrency as read from the configuration file
    nsrc,       \* number of objects in the source bucket
    dst,        \* destination bucket: key -> [present, size, etag]
    second,     \* FALSE in the first run of the program, TRUE in the second
    semlib,     \* golang.org/x/sync of the build: "v0.6", "v0.7", "" = not yet shown
    pc,         \* position of main (and of syncBucketConfig inside it)
    cfgLog,     \* bucket-level calls issued by the running syncBucketConfig, in order
    cfgOut,     \* what each of those calls returned, in the same order
    cfgErr,     \* value returned by syncBucketConfig
    objects,    \* var objects []types.Object
    token,      \* listInput.ContinuationToken (0 = nil)
    listErr,    \* the last ListObjectsV2 call returned an error
    idx,        \* number of iterations of the dispatch loop done
    gerr,       \* errgroup: g.err
    cancelled,  \* errgroup: the derived ctx is done
    cur,        \* semaphore: s.cur
    waiters,    \* semaphore: s.waiters (FIFO)
    ready,      \* semaphore: waiters whose ready channel is closed
    mu,         \* sync.Mutex: 0 or the unit holding it
    copied,     \* var copied int
    skipped,    \* var skipped int
    bar,        \* progress bar: number of bar.Increment() calls
    upc,        \* position of the goroutine of each object
    ret,        \* value the goroutine's function returns
    dh,         \* result of the destination head of each goroutine
    vh,         \* result of the verifying head of each goroutine
    ops,        \* remote calls each goroutine issued, in order
    cnt,        \* which counter the goroutine incremented
    seen,       \* size and entity tag the goroutine read through obj at line 144
    args,       \* size and entity tag it handed to copyAndVerifyObject
    stepErr,    \* first call of copyAndVerifyObject that returned an error
    firstFail   \* the first goroutine whose function returned an error (0 = none)

envVars  == <<conc, nsrc, dst, second>>
mainVars == <<pc, cfgLog, cfgOut, cfgErr, objects, token, listErr, idx>>
grpVars  == <<gerr, cancelled>>
semVars  == <<cur, waiters, ready>>
cntVars  == <<mu, copied, skipped, bar>>
unitVars == <<upc, ret, dh, vh, ops, cnt, seen, args, stepErr, firstFail>>
vars == <<envVars, semlib, mainVars, grpVars, semVars, cntVars, unitVars>>

Units == 1..MaxObjs

\* ------------------------------------------------------------ data values
Sizes == {1, 2}
ETags == {"t1", "t2"}

\* The object descriptor the listing returns for the k-th key of the source:
\* the first two objects have the same size and different entity tags.
Desc(k) == [key |-> k,
            size |-> IF k <= 2 THEN 1 ELSE 2,
            etag |-> IF k <= 1 THEN "t1" ELSE "t2"]

Absent == [present |-> FALSE, size |-> 0, etag |-> ""]
DestVals == {[present |-> TRUE, size |-> s, etag |-> e] : s \in Sizes, e \in ETags}

\* ---------------------------------------------------------------- errors
\* An error text is a sequence of words; nil is the empty sequence.
NilText == <<>>
Contains(text, word) == \E j \in 1..Len(text) : text[j] = word

NotFoundText    == <<"StatusCode:", "404", "NotFound">>
ForbiddenText   == <<"StatusCode:", "403", "AccessDenied">>
ReqId404Text    == <<"StatusCode:", "503", "SlowDown", "RequestID:", "404">>
CanceledText    == <<"context", "canceled">>
OwnedText       == <<"BucketAlreadyOwnedByYou">>
ExistsText      == <<"BucketAlreadyExists">>
NoPolicyText    == <<"NoSuchBucketPolicy">>
NoLifecycleText == <<"NoSuchLifecycleConfiguration">>

\* fmt.Errorf("failed to <op> ...: %w", cause)
NoErr == [op |-> "", key |-> 0, cause |-> NilText]
Errorf(op, key, cause) == [op |-> op, key |-> key, cause |-> cause]


NotReturned == [op |-> "pending", key |-> 0, cause |-> NilText]
IsErr(e) == e # NoErr

\* ------------------------------------------------------------------ Init
NoHead == [called |-> FALSE, err |-> NilText, size |-> 0, etag |-> ""]
NoSeen == [size |-> 0, etag |-> ""]

ProgramInit ==
    /\ pc = "cfgCreate"
    /\ cfgLog = <<>>
    /\ cfgOut = <<>>
    /\ cfgErr = NotReturned
    /\ objects = <<>>
    /\ token = 0
    /\ listErr = FALSE
    /\ idx = 0
    /\ gerr = NoErr
    /\ cancelled = FALSE
    /\ cur = 0
    /\ waiters = <<>>
    /\ ready = {}
    /\ mu = 0
    /\ copied = 0
    /\ skipped = 0
    /\ bar = 0
    /\ upc = [u \in Units |-> "idle"]
    /\ ret = [u \in Units |-> NoErr]
    /\ dh = [u \in Units |-> NoHead]
    /\ vh = [u \in Units |-> NoHead]
    /\ ops = [u \in Units |-> <<>>]
    /\ cnt = [u \in Units |-> "none"]
    /\ seen = [u \in Units |-> NoSeen]
    /\ args = [u \in Units |-> NoSeen]
    /\ stepErr = [u \in Units |-> ""]
    /\ firstFail = 0

Init ==
    /\ conc \in 0..MaxConc
    /\ nsrc \in 0..MaxObjs
    /\ dst \in [Units -> DestVals \cup {Absent}]
    /\ \A k \in Units : k > nsrc => dst[k] = Absent
    /\ second = FALSE
    /\ semlib = ""
    /\ ProgramInit

\* cfg.Concurrency after the default is applied
Concurrency == IF conc <= 0 THEN DefaultConcurrency ELSE conc

\* ------------------------------------------------------- syncBucketConfig
CfgOk      == [err |-> NilText, has |-> TRUE]
CfgOkEmpty == [err |-> NilText, has |-> FALSE]
CfgFail(t) == [err |-> t, has |-> FALSE]
\* Result of a call whose output the code does not look into.
CfgResult(t) == [err |-> t, has |-> FALSE]

CfgReturn(e) ==
    /\ cfgErr' = e
    /\ pc' = "cfgReturned"

CfgGoto(p) ==
    /\ pc' = p
    /\ UNCHANGED cfgErr

\* Mutant of CreateTolerated: no error of CreateBucket stops the phase.
CreateToleratedAny(t) == TRUE

\* line 179: success, or the bucket is there already
CreateTolerated(t) ==
    t = NilText \/ Contains(t, "BucketAlreadyOwnedByYou") \/ Contains(t, "BucketAlreadyExists")

CfgCreateBucket ==
    /\ pc = "cfgCreate"
    /\ cfgLog' = Append(cfgLog, "CreateBucket")
    /\ \E t \in {NilText, OwnedText, ExistsText, ForbiddenText} :
          /\ cfgOut' = Append(cfgOut, CfgResult(t))
          /\ IF ~CreateTolerated(t)
             THEN CfgReturn(Errorf("create destination bucket", 0, t))
             ELSE CfgGoto("cfgGetPolicy")
    /\ UNCHANGED <<envVars, semlib, objects, token, listErr, idx, grpVars, semVars, cntVars, unitVars>>

\* The branch taken after a get of an optional feature (policy, lifecycle):
\* "put" when the get succeeded with a value, "panic" when the code calls
\* err.Error() on a nil error, "skip" on the not-configured text, else "fail".
OptionalBranch(r, notConfigured) ==
    IF r.err = NilText /\ r.has THEN "put"
    ELSE IF r.err = NilText THEN "panic"
    ELSE IF ~Contains(r.err, notConfigured) THEN "fail"
    ELSE "skip"

CfgGetPolicy ==
    /\ pc = "cfgGetPolicy"
    /\ cfgLog' = Append(cfgLog, "GetBucketPolicy")
    /\ \E r \in {CfgOk, CfgOkEmpty, CfgFail(NoPolicyText), CfgFail(ForbiddenText)} :
          /\ cfgOut' = Append(cfgOut, r)
          /\ LET b == OptionalBranch(r, "NoSuchBucketPolicy") IN
             IF b = "put" THEN CfgGoto("cfgPutPolicy")
             ELSE IF b = "panic" THEN CfgGoto("panic")
             ELSE IF b = "fail" THEN CfgReturn(Errorf("get source bucket policy", 0, r.err))
             ELSE CfgGoto("cfgGetVersioning")
    /\ UNCHANGED <<envVars, semlib, objects, token, listErr, idx, grpVars, semVars, cntVars, unitVars>>

CfgPutPolicy ==
    /\ pc = "cfgPutPolicy"
    /\ cfgLog' = Append(cfgLog, "PutBucketPolicy")
    /\ \E t \in {NilText, ForbiddenText} :
          /\ cfgOut' = Append(cfgOut, CfgResult(t))
          /\ IF t # NilText
             THEN CfgReturn(Errorf("sync bucket policy", 0, t))
             ELSE CfgGoto("cfgGetVersioning")
    /\ UNCHANGED <<envVars, semlib, objects, token, listErr, idx, grpVars, semVars, cntVars, unitVars>>

CfgGetVersioning ==
    /\ pc = "cfgGetVersioning"
    /\ cfgLog' = Append(cfgLog, "GetBucketVersioning")
    /\ \E t \in {NilText, ForbiddenText} :
          /\ cfgOut' = Append(cfgOut, CfgResult(t))
          /\ IF t # NilText
             THEN CfgReturn(Errorf("get source bucket versioning", 0, t))
             ELSE CfgGoto("cfgPutVersioning")
    /\ UNCHANGED <<envVars, semlib, objects, token, listErr, idx, grpVars, semVars, cntVars, unitVars>>

CfgPutVersioning ==
    /\ pc = "cfgPutVersioning"
    /\ cfgLog' = Append(cfgLog, "PutBucketVersioning")
    /\ \E t \in {NilText, ForbiddenText} :
          /\ cfgOut' = Append(cfgOut, CfgResult(t))
          /\ IF t # NilText
             THEN CfgReturn(Errorf("sync bucket versioning", 0, t))
             ELSE CfgGoto("cfgGetLifecycle")
    /\ UNCHANGED <<envVars, semlib, objects, token, listErr, idx, grpVars, semVars, cntVars, unitVars>>

CfgGetLifecycle ==
    /\ pc = "cfgGetLifecycle"
    /\ cfgLog' = Append(cfgLog, "GetBucketLifecycleConfiguration")
    /\ \E r \in {CfgOk, CfgOkEmpty, CfgFail(NoLifecycleText), CfgFail(ForbiddenText)} :
          /\ cfgOut' = Append(cfgOut, r)
          /\ LET b == OptionalBranch(r, "NoSuchLifecycleConfiguration") IN
             IF b = "put" THEN CfgGoto("cfgPutLifecycle")
             ELSE IF b = "panic" THEN CfgGoto("panic")
             ELSE IF b = "fail" THEN CfgReturn(Errorf("get source lifecycle configuration", 0, r.err))
             ELSE CfgReturn(NoErr)
    /\ UNCHANGED <<envVars, semlib, objects, token, listErr, idx, grpVars, semVars, cntVars, unitVars>>

CfgPutLifecycle ==
    /\ pc = "cfgPutLifecycle"
    /\ cfgLog' = Append(cfgLog, "PutBucketLifecycleConfiguration")
    /\ \E t \in {NilText, ForbiddenText} :
          /\ cfgOut' = Append(cfgOut, CfgResult(t))
          /\ IF t # NilText
             THEN CfgReturn(Errorf("sync lifecycle rules", 0, t))
             ELSE CfgReturn(NoErr)
    /\ UNCHANGED <<envVars, semlib, objects, token, listErr, idx, grpVars, semVars, cntVars, unitVars>>

\* ------------------------------------------------------------------ main
\* Mutant of ConfigFatal: the error of syncBucketConfig is ignored.
ConfigFatalNever(e) == FALSE

\* main, line 80: log.Fatalf when syncBucketConfig returned an error.
ConfigFatal(e) == IsErr(e)

\* cfgLog is the record of one call of syncBucketConfig: it is kept when the
\* run stops here and dropped when main moves on to the listing.
MainAfterConfig ==
    /\ pc = "cfgReturned"
    /\ pc' = IF ConfigFatal(cfgErr) THEN "fatalConfig" ELSE "list"
    /\ cfgLog' = IF ConfigFatal(cfgErr) THEN cfgLog ELSE <<>>
    /\ cfgOut' = IF ConfigFatal(cfgErr) THEN cfgOut ELSE <<>>
    /\ UNCHANGED <<envVars, semlib, cfgErr, objects, token, listErr, idx, grpVars, semVars,
                   cntVars, unitVars>>

Min(a, b) == IF a < b THEN a ELSE b

\* Contents of the listing page that starts after `tok` keys.
Page(tok) == [j \in 1..(Min(tok + PageSize, nsrc) - tok) |-> Desc(tok + j)]
\* NextContinuationToken of that page (0 = nil).
NextToken(tok) == IF tok + PageSize < nsrc THEN tok + PageSize ELSE 0

\* Mutant of AfterPage: a failed page request does not stop the run.
AfterPageIgnoreError(failed, next) == IF next = 0 THEN "dispatch" ELSE "list"

\* main, lines 91-93: what the listing loop does with the result of a page.
AfterPage(failed, next) ==
    IF failed THEN "fatalList" ELSE IF next = 0 THEN "dispatch" ELSE "list"

MainListPage ==
    /\ pc = "list"
    /\ \E failed \in BOOLEAN :
          /\ listErr' = failed
          /\ pc' = AfterPage(failed, NextToken(token))
          /\ IF failed
             THEN UNCHANGED <<objects, token>>
             ELSE /\ objects' = objects \o Page(token)
                  /\ token' = IF NextToken(token) = 0 THEN token ELSE NextToken(token)
    /\ UNCHANGED <<envVars, semlib, cfgLog, cfgOut, cfgErr, idx, grpVars, semVars, cntVars, unitVars>>


\* main, lines 114-116: one iteration of the dispatch loop; g.Go starts the
\* goroutine of the next listed object without blocking.
MainDispatch ==
    /\ pc = "dispatch"
    /\ idx < Len(objects)
    /\ idx' = idx + 1
    /\ upc' = [upc EXCEPT ![idx + 1] = "acquire"]
    /\ UNCHANGED <<envVars, semlib, pc, cfgLog, cfgOut, cfgErr, objects, token, listErr, grpVars,
                   semVars, cntVars, ret, dh, vh, ops, cnt, seen, args, stepErr, firstFail>>

MainLoopExit ==
    /\ pc = "dispatch"
    /\ idx = Len(objects)
    /\ pc' = "wait"
    /\ UNCHANGED <<envVars, semlib, cfgLog, cfgOut, cfgErr, objects, token, listErr, idx, grpVars, semVars,
                   cntVars, unitVars>>

\* Mutant of AllDone: Wait does not block on the goroutines.
AllDoneNoWait == TRUE

\* g.Wait() blocks until every started goroutine is done.
AllDone == \A u \in 1..Len(objects) : upc[u] = "done"

\* lines 165-171: log.Fatalf on the error Wait returns, else the final report.
WaitResult(e) == IF IsErr(e) THEN "failed" ELSE "success"

MainWait ==
    /\ pc = "wait"
    /\ AllDone
    /\ cancelled' = TRUE
    /\ pc' = WaitResult(gerr)
    /\ UNCHANGED <<envVars, semlib, cfgLog, cfgOut, cfgErr, objects, token, listErr, idx, gerr, semVars,
                   cntVars, unitVars>>

\* ------------------------------------------------------------- semaphore
\* semaphore.Weighted.notifyWaiters: grant slots to waiters from the front
\* of the queue while one fits.
\* Mutant of NotifyWaiters: a release wakes nobody.
NotifyNobody(c, w, r) == [cur |-> c, waiters |-> w, ready |-> r]

RECURSIVE NotifyWaiters(_, _, _)
NotifyWaiters(c, w, r) ==
    IF w = <<>> \/ Concurrency - c < 1
    THEN [cur |-> c, waiters |-> w, ready |-> r]
    ELSE NotifyWaiters(c + 1, Tail(w), r \cup {Head(w)})

\* Mutant of SemRelease: the slot is not given back.
SemReleaseMissing == UNCHANGED semVars

\* semaphore.Weighted.Release(1)
SemRelease ==
    LET n == NotifyWaiters(cur - 1, waiters, ready) IN
    /\ cur' = n.cur
    /\ waiters' = n.waiters
    /\ ready' = n.ready

\* Mutant of CanAcquire: the fast path does not look at the slots in use.
CanAcquireNoLimit(c, w) == w = <<>>

\* Acquire's fast path: a slot is free and nobody queues.
CanAcquire(c, w) == Concurrency - c >= 1 /\ w = <<>>

\* The go.mod that fixes the version of golang.org/x/sync is not part of the
\* source.  Acquire treats a done ctx in one of two ways: from v0.7.0 on it
\* returns ctx.Err() whenever it finds ctx done, giving back a slot it was
\* granted; up to v0.6.0 it looks at ctx only while it queues, and keeps a
\* slot it was granted.  A run has one library: it is fixed by the first
\* call whose outcome depends on it (differs says that this call does).
SemLibs(differs) == IF differs /\ semlib = "" THEN {"v0.6", "v0.7"} ELSE {semlib}

\* Acquire of library lib returns ctx.Err() because it finds ctx done, on
\* entry or after the slot was granted.
AcquireRefused(lib, done) == lib = "v0.7" /\ done

Without(w, u) == SelectSeq(w, LAMBDA x : x # u)

\* --------------------------------------------------------- remote service
HeadOk(o)   == [called |-> TRUE, err |-> NilText, size |-> o.size, etag |-> o.etag]
HeadFail(t) == [called |-> TRUE, err |-> t, size |-> 0, etag |-> ""]

\* Results a HeadObject(ctx, ...) of destination key k can give.
HeadResults(k) ==
    IF cancelled THEN {HeadFail(CanceledText)}
    ELSE (IF dst[k].present THEN {HeadOk(dst[k])} ELSE {HeadFail(NotFoundText)})
         \cup {HeadFail(ForbiddenText), HeadFail(ReqId404Text)}

\* Error results of a call on the source object (nil = success).
CallResults == IF cancelled THEN {CanceledText} ELSE {NilText, ForbiddenText}

\* ------------------------------------------------------------- work unit
\* key := *obj.Key, line 115: copied before the goroutine is started.
Key(u) == objects[u].key

\* The go.mod that fixes the language version is not part of the source.
\* With a go directive of 1.22 or later the range clause of line 114 declares
\* obj anew in every iteration, and the goroutine reads its own element.
\* With an earlier one obj is one variable of the whole loop, which the loop
\* overwrites while the goroutines read it without synchronisation: a read
\* of a field returns what any iteration from the goroutine's own up to the
\* latest one has stored, each field on its own.  The elements whose fields
\* the goroutine of the u-th object can read through obj:
Obj(u) == {objects[j] : j \in u..idx}

\* *obj.Size and *obj.ETag, lines 131, 144 and 146
Read(u) == {[size |-> a.size, etag |-> b.etag] : a \in Obj(u), b \in Obj(u)}

\* Mutant of Failed: the error of a call is not looked at.
FailedNever(t) == FALSE

\* `if err != nil` after a call of copyAndVerifyObject
Failed(t) == t # NilText

\* The call named step returned t.
Returned(u, step, t) ==
    stepErr' = [stepErr EXCEPT ![u] = IF t # NilText /\ @ = "" THEN step ELSE @]

Fail(u, e) ==
    /\ ret' = [ret EXCEPT ![u] = e]
    /\ upc' = [upc EXCEPT ![u] = "release"]

Goto(u, p) ==
    /\ upc' = [upc EXCEPT ![u] = p]
    /\ UNCHANGED ret

Issue(u, op) == ops' = [ops EXCEPT ![u] = Append(@, op)]

\* line 117: sem.Acquire(ctx, 1)
UnitAcquire(u) ==
    /\ upc[u] = "acquire"
    /\ \E lib \in SemLibs(cancelled) :
          /\ semlib' = lib
          /\ IF AcquireRefused(lib, cancelled)
             THEN /\ ret' = [ret EXCEPT ![u] = Errorf("acquire semaphore", Key(u), CanceledText)]
                  /\ upc' = [upc EXCEPT ![u] = "return"]
                  /\ UNCHANGED semVars
             ELSE IF CanAcquire(cur, waiters)
             THEN /\ cur' = cur + 1
                  /\ Goto(u, "dhead")
                  /\ UNCHANGED <<waiters, ready>>
             ELSE /\ waiters' = Append(waiters, u)
                  /\ Goto(u, "waiting")
                  /\ UNCHANGED <<cur, ready>>
    /\ UNCHANGED <<envVars, mainVars, grpVars, cntVars, dh, vh, ops, cnt, seen, args, stepErr, firstFail>>

\* Acquire's slow path, the select took <-ready: the slot was granted.  From
\* v0.7.0 on it is given back when ctx is done by then; before, Acquire
\* returns nil.
UnitWakeReady(u) ==
    /\ upc[u] = "waiting"
    /\ u \in ready
    /\ \E lib \in SemLibs(cancelled) :
          /\ semlib' = lib
          /\ IF AcquireRefused(lib, cancelled)
             THEN /\ LET n == NotifyWaiters(cur - 1, waiters, ready \ {u}) IN
                       /\ cur' = n.cur
                       /\ waiters' = n.waiters
                       /\ ready' = n.ready
                  /\ ret' = [ret EXCEPT ![u] = Errorf("acquire semaphore", Key(u), CanceledText)]
                  /\ upc' = [upc EXCEPT ![u] = "return"]
             ELSE /\ ready' = ready \ {u}
                  /\ Goto(u, "dhead")
                  /\ UNCHANGED <<cur, waiters>>
    /\ UNCHANGED <<envVars, mainVars, grpVars, cntVars, dh, vh, ops, cnt, seen, args, stepErr, firstFail>>

\* Acquire's slow path, the select took <-ctx.Done().  A waiter that was not
\* granted a slot leaves the queue and Acquire returns ctx.Err().  A waiter
\* that was granted one meanwhile puts it back and returns ctx.Err() from
\* v0.7.0 on; before, it keeps the slot and Acquire returns nil.
UnitWakeDone(u) ==
    /\ upc[u] = "waiting"
    /\ cancelled
    /\ LET granted == u \in ready
           front == waiters # <<>> /\ Head(waiters) = u
           w == Without(waiters, u)
       IN \E lib \in SemLibs(granted) :
          /\ semlib' = lib
          /\ IF granted /\ ~AcquireRefused(lib, cancelled)
             THEN /\ ready' = ready \ {u}
                  /\ Goto(u, "dhead")
                  /\ UNCHANGED <<cur, waiters>>
             ELSE /\ LET n == IF granted THEN NotifyWaiters(cur - 1, waiters, ready \ {u})
                              ELSE IF front /\ Concurrency > cur
                              THEN NotifyWaiters(cur, w, ready)
                              ELSE [cur |-> cur, waiters |-> w, ready |-> ready]
                     IN /\ cur' = n.cur
                        /\ waiters' = n.waiters
                        /\ ready' = n.ready
                  /\ ret' = [ret EXCEPT ![u] = Errorf("acquire semaphore", Key(u), CanceledText)]
                  /\ upc' = [upc EXCEPT ![u] = "return"]
    /\ UNCHANGED <<envVars, mainVars, grpVars, cntVars, dh, vh, ops, cnt, seen, args, stepErr, firstFail>>

\* Mutant of IsNotFound: every failure of the head counts as not-found.
IsNotFoundAnyError(t) == TRUE

\* line 129: the error text carries a not-found indicator.
IsNotFound(t) == Contains(t, "NotFound") \/ Contains(t, "404")

\* Mutant of Differs: only the size is compared.
DiffersSizeOnly(h, size, etag) == h.size # size

\* lines 144 and 288: size or entity tag differs.
Differs(h, size, etag) == h.size # size \/ h.etag # etag

\* lines 127-159: what the unit does with the result of the destination head:
\* "copy" (run copyAndVerifyObject), "skip", or "fail".
Route(h, o) ==
    IF h.err # NilText
    THEN (IF IsNotFound(h.err) THEN "copy" ELSE "fail")
    ELSE IF Differs(h, o.size, o.etag) THEN "copy" ELSE "skip"

\* lines 127-146: the destination head and what the goroutine does with its
\* result.  o is what the comparison of line 144 reads through obj, a what
\* the call of copyAndVerifyObject (line 131 or 146) reads through it.
UnitDestHead(u) ==
    /\ upc[u] = "dhead"
    /\ Issue(u, "dhead")
    /\ \E h \in HeadResults(Key(u)), o \in Read(u), a \in Read(u) :
          /\ dh' = [dh EXCEPT ![u] = h]
          /\ LET r == Route(h, o) IN
             /\ seen' = [seen EXCEPT ![u] = IF h.err = NilText THEN o ELSE @]
             /\ args' = [args EXCEPT ![u] = IF r = "copy" THEN a ELSE @]
             /\ IF r = "copy" THEN Goto(u, "shead")
                ELSE IF r = "skip" THEN Goto(u, "lockS")
                ELSE Fail(u, Errorf("head destination object", Key(u), h.err))
    /\ UNCHANGED <<envVars, semlib, mainVars, grpVars, semVars, cntVars, vh, cnt, stepErr, firstFail>>

\* copyAndVerifyObject, lines 247-250
UnitSrcHead(u) ==
    /\ upc[u] = "shead"
    /\ Issue(u, "shead")
    /\ \E t \in CallResults :
          /\ Returned(u, "shead", t)
          /\ IF Failed(t)
             THEN Fail(u, Errorf("head source object", Key(u), t))
             ELSE Goto(u, "tags")
    /\ UNCHANGED <<envVars, semlib, mainVars, grpVars, semVars, cntVars, dh, vh, cnt, seen, args, firstFail>>

\* copyAndVerifyObject, lines 253-259
UnitTags(u) ==
    /\ upc[u] = "tags"
    /\ Issue(u, "tags")
    /\ \E t \in CallResults :
          /\ Returned(u, "tags", t)
          /\ IF Failed(t)
             THEN Fail(u, Errorf("get source object tags", Key(u), t))
             ELSE Goto(u, "copy")
    /\ UNCHANGED <<envVars, semlib, mainVars, grpVars, semVars, cntVars, dh, vh, cnt, seen, args, firstFail>>

\* copyAndVerifyObject, lines 262-275.  The object the copy leaves in the
\* destination is the service's to decide; a copy that reports an error
\* leaves the destination as it was.
UnitCopy(u) ==
    /\ upc[u] = "copy"
    /\ Issue(u, "copy")
    /\ LET k == Key(u) IN
       \E t \in CallResults :
          /\ Returned(u, "copy", t)
          /\ IF t # NilText THEN UNCHANGED dst
             ELSE \E v \in DestVals : dst' = [dst EXCEPT ![k] = v]
          /\ IF Failed(t)
             THEN Fail(u, Errorf("copy object", k, t))
             ELSE Goto(u, "verify")
    /\ UNCHANGED <<conc, nsrc, second, semlib, mainVars, grpVars, semVars, cntVars, dh, vh,
                   cnt, seen, args, firstFail>>

\* Mutant of Verified: the check of line 288 compares the size alone.
VerifiedSizeOnly(h, sourceSize, sourceETag) == h.size = sourceSize

\* copyAndVerifyObject, lines 288-294: the re-head equals the values passed in
Verified(h, sourceSize, sourceETag) == ~Differs(h, sourceSize, sourceETag)

\* copyAndVerifyObject, lines 278-294
UnitVerify(u) ==
    /\ upc[u] = "verify"
    /\ Issue(u, "vhead")
    /\ \E h \in HeadResults(Key(u)) :
          /\ vh' = [vh EXCEPT ![u] = h]
          /\ Returned(u, "vhead", h.err)
          /\ IF Failed(h.err)
             THEN Fail(u, Errorf("verify copied object", Key(u), h.err))
             ELSE IF ~Verified(h, args[u].size, args[u].etag)
             THEN Fail(u, Errorf("verification", Key(u), NilText))
             ELSE Goto(u, "lockC")
    /\ UNCHANGED <<envVars, semlib, mainVars, grpVars, semVars, cntVars, dh, cnt, seen, args, firstFail>>

\* Mutant of MutexFree: Lock never waits.
MutexFreeAlways(m) == TRUE

\* sync.Mutex: Lock returns when no goroutine holds the mutex.
MutexFree(m) == m = 0

\* mu.Lock(), lines 134, 149, 155
UnitLock(u) ==
    /\ upc[u] \in {"lockC", "lockS"}
    /\ MutexFree(mu)
    /\ mu' = u
    /\ Goto(u, IF upc[u] = "lockC" THEN "incC" ELSE "incS")
    /\ UNCHANGED <<envVars, semlib, mainVars, grpVars, semVars, copied, skipped, bar,
                   dh, vh, ops, cnt, seen, args, stepErr, firstFail>>

\* copied++, lines 135, 150
UnitIncCopied(u) ==
    /\ upc[u] = "incC"
    /\ copied' = copied + 1
    /\ cnt' = [cnt EXCEPT ![u] = "copied"]
    /\ Goto(u, "bar")
    /\ UNCHANGED <<envVars, semlib, mainVars, grpVars, semVars, mu, skipped, bar,
                   dh, vh, ops, seen, args, stepErr, firstFail>>

\* skipped++, line 156
UnitIncSkipped(u) ==
    /\ upc[u] = "incS"
    /\ skipped' = skipped + 1
    /\ cnt' = [cnt EXCEPT ![u] = "skipped"]
    /\ Goto(u, "bar")
    /\ UNCHANGED <<envVars, semlib, mainVars, grpVars, semVars, mu, copied, bar,
                   dh, vh, ops, seen, args, stepErr, firstFail>>

\* bar.Increment(), lines 136, 151, 157
UnitBar(u) ==
    /\ upc[u] = "bar"
    /\ bar' = bar + 1
    /\ Goto(u, "unlock")
    /\ UNCHANGED <<envVars, semlib, mainVars, grpVars, semVars, mu, copied, skipped,
                   dh, vh, ops, cnt, seen, args, stepErr, firstFail>>

\* mu.Unlock(), lines 137, 152, 158
UnitUnlock(u) ==
    /\ upc[u] = "unlock"
    /\ mu' = 0
    /\ Goto(u, "release")
    /\ UNCHANGED <<envVars, semlib, mainVars, grpVars, semVars, copied, skipped, bar,
                   dh, vh, ops, cnt, seen, args, stepErr, firstFail>>

\* defer sem.Release(1), line 120
UnitRelease(u) ==
    /\ upc[u] = "release"
    /\ SemRelease
    /\ Goto(u, "return")
    /\ UNCHANGED <<envVars, semlib, mainVars, grpVars, cntVars, dh, vh, ops, cnt, seen, args, stepErr, firstFail>>

\* Mutant of ErrOnce: every error returned overwrites g.err.
ErrOnceLast(g, e) == IF IsErr(e) THEN e ELSE g

\* errgroup: g.errOnce keeps the first non-nil error returned to it.
ErrOnce(g, e) == IF IsErr(e) /\ ~IsErr(g) THEN e ELSE g

\* errgroup.Go's wrapper: the function returned; record the first error and
\* cancel the group's ctx, then g.done().
UnitReturn(u) ==
    /\ upc[u] = "return"
    /\ gerr' = ErrOnce(gerr, ret[u])
    /\ cancelled' = (cancelled \/ IsErr(ret[u]))
    /\ firstFail' = IF firstFail = 0 /\ IsErr(ret[u]) THEN u ELSE firstFail
    /\ Goto(u, "done")
    /\ UNCHANGED <<envVars, semlib, mainVars, semVars, cntVars, dh, vh, ops, cnt, seen, args, stepErr>>

\* The program is run again after a run that ended in success; the buckets
\* and the configuration file are as the first run left them.
Rerun ==
    /\ pc = "success"
    /\ ~second
    /\ second' = TRUE
    /\ pc' = "cfgCreate"
    /\ cfgLog' = <<>>
    /\ cfgOut' = <<>>
    /\ cfgErr' = NotReturned
    /\ objects' = <<>>
    /\ token' = 0
    /\ listErr' = FALSE
    /\ idx' = 0
    /\ gerr' = NoErr
    /\ cancelled' = FALSE
    /\ cur' = 0
    /\ waiters' = <<>>
    /\ ready' = {}
    /\ mu' = 0
    /\ copied' = 0
    /\ skipped' = 0
    /\ bar' = 0
    /\ upc' = [u \in Units |-> "idle"]
    /\ ret' = [u \in Units |-> NoErr]
    /\ dh' = [u \in Units |-> NoHead]
    /\ vh' = [u \in Units |-> NoHead]
    /\ ops' = [u \in Units |-> <<>>]
    /\ cnt' = [u \in Units |-> "none"]
    /\ seen' = [u \in Units |-> NoSeen]
    /\ args' = [u \in Units |-> NoSeen]
    /\ stepErr' = [u \in Units |-> ""]
    /\ firstFail' = 0
    /\ UNCHANGED <<conc, nsrc, dst, semlib>>

Unit(u) ==
    \/ UnitAcquire(u) \/ UnitWakeReady(u) \/ UnitWakeDone(u)
    \/ UnitDestHead(u) \/ UnitSrcHead(u) \/ UnitTags(u) \/ UnitCopy(u)
    \/ UnitVerify(u) \/ UnitLock(u) \/ UnitIncCopied(u) \/ UnitIncSkipped(u)
    \/ UnitBar(u) \/ UnitUnlock(u) \/ UnitRelease(u) \/ UnitReturn(u)

Next ==
    \/ CfgCreateBucket \/ CfgGetPolicy \/ CfgPutPolicy \/ CfgGetVersioning
    \/ CfgPutVersioning \/ CfgGetLifecycle \/ CfgPutLifecycle
    \/ MainAfterConfig \/ MainListPage \/ MainDispatch \/ MainLoopExit \/ MainWait
    \/ \E u \in Units : Unit(u)
    \/ Rerun

Spec == Init /\ [][Next]_vars

\* The steps of main, syncBucketConfig included.
MainStep ==
    \/ CfgCreateBucket \/ CfgGetPolicy \/ CfgPutPolicy \/ CfgGetVersioning
    \/ CfgPutVersioning \/ CfgGetLifecycle \/ CfgPutLifecycle
    \/ MainAfterConfig \/ MainListPage \/ MainDispatch \/ MainLoopExit \/ MainWait

\* Every remote call returns and the scheduler runs every goroutine that can
\* take a step: main and each unit go on while they are able to.  Running the
\* program again is left to its user.
FairSpec == Spec /\ WF_vars(MainStep) /\ \A u \in Units : WF_vars(Unit(u))


\* ============================================================ properties
HasOp(u, op) == \E j \in 1..Len(ops[u]) : ops[u][j] = op
Pos(u, op) == CHOOSE j \in 1..Len(ops[u]) : ops[u][j] = op
Erred == {u \in Units : IsErr(ret[u])}
Counted(c) == {u \in Units : cnt[u] = c}
Ended == pc \in {"success", "failed"}

\* The goroutine has acquired its slot and not yet released it.
HoldingPcs == {"dhead", "shead", "tags", "copy", "verify", "lockC", "lockS",
               "incC", "incS", "bar", "unlock", "release"}
Holding == {u \in Units : upc[u] \in HoldingPcs}
\* Acquire has not returned yet.
NotAdmittedPcs == {"idle", "acquire", "waiting"}

\* The re-head of u succeeded with the size and tag passed in by the caller.
VerifyMatched(u) ==
    /\ vh[u].called
    /\ vh[u].err = NilText
    /\ vh[u].size = args[u].size
    /\ vh[u].etag = args[u].etag

\* C1 (verification gating): copied is incremented for a key only after the
\* copy call was issued and a later head of the destination returned the
\* size and entity tag the caller passed in; a re-head that fails or
\* differs makes the unit return an error and increment neither counter.
C1_VerificationGating ==
    /\ copied = Cardinality(Counted("copied"))
    /\ \A u \in Units :
          /\ cnt[u] = "copied" =>
                /\ HasOp(u, "copy") /\ HasOp(u, "vhead")
                /\ Pos(u, "copy") < Pos(u, "vhead")
                /\ VerifyMatched(u)
          /\ (vh[u].called /\ ~VerifyMatched(u)) =>
                /\ IsErr(ret[u])
                /\ cnt[u] = "none"

\* Witness of C1: one object was counted as copied and another's re-head
\* returned a differing entity tag.
C1_Witness ==
    \E u, v \in Units :
       /\ cnt[u] = "copied"
       /\ vh[v].called /\ vh[v].err = NilText
       /\ vh[v].size = args[v].size /\ vh[v].etag # args[v].etag
       /\ upc[v] = "done"

\* C2 (concurrency ceiling): the units holding an admission slot, and the
\* slots the semaphore has handed out, never exceed the configured
\* concurrency.
C2_ConcurrencyCeiling ==
    /\ Cardinality(Holding) <= Concurrency
    /\ cur <= Concurrency

\* Witness of C2: with concurrency 1 one unit holds the slot while another
\* queues for it.
C2_Witness ==
    /\ Concurrency = 1
    /\ \E u, v \in Units : upc[u] = "verify" /\ upc[v] = "waiting"

\* C3 (in-flight work survives the first failure): a unit that acquired its
\* slot never fails because of the cancellation raised by another unit's
\* failure.
C3_InFlightSurvives ==
    \A u \in Units :
       (IsErr(ret[u]) /\ ret[u].op # "acquire semaphore") => ret[u].cause # CanceledText

\* C5 (total coverage): when Wait has returned every listed object has
\* exactly one outcome among copied, skipped and errored, and
\* copied + skipped + errored is the number of listed objects.
C5_TotalCoverage ==
    Ended =>
       /\ Len(objects) = nsrc
       /\ \A u \in 1..Len(objects) :
             Cardinality({o \in {"copied", "skipped", "errored"} :
                            \/ o = "errored" /\ IsErr(ret[u])
                            \/ o # "errored" /\ cnt[u] = o}) = 1
       /\ copied + skipped + Cardinality(Erred) = Len(objects)
       /\ copied = Cardinality(Counted("copied"))
       /\ skipped = Cardinality(Counted("skipped"))

\* Witness of C5: a run ended with one object copied and one errored.
C5_Witness ==
    /\ Ended
    /\ copied = 1
    /\ Cardinality(Erred) = 1

\* C6 (first-failure reporting): the run ends in success exactly when every
\* unit returned nil; otherwise the error reported is the one of the unit
\* that returned an error first, and it is no acquire error.
C6_FirstFailure ==
    Ended =>
       /\ (pc = "success") <=> (Erred = {})
       /\ pc = "failed" =>
             /\ firstFail \in Erred
             /\ gerr = ret[firstFail]
             /\ gerr.op # "acquire semaphore"

\* Witness of C6: a failed run in which two units returned different errors.
C6_Witness ==
    /\ pc = "failed"
    /\ \E u, v \in Erred :
          /\ ret[u].op # ret[v].op
          /\ ret[u].op # "acquire semaphore"
          /\ ret[v].op # "acquire semaphore"

\* The destination head of u reported not-found / succeeded.
HeadNotFound(u) ==
    /\ dh[u].err # NilText
    /\ \E j \in 1..Len(dh[u].err) : dh[u].err[j] \in {"NotFound", "404"}
HeadSucceeded(u) == dh[u].called /\ dh[u].err = NilText
\* ... and differs from / equals the source size and entity tag the unit
\* read through obj.
HeadStale(u) ==
    HeadSucceeded(u) /\ (dh[u].size # seen[u].size \/ dh[u].etag # seen[u].etag)
HeadCurrent(u) ==
    HeadSucceeded(u) /\ dh[u].size = seen[u].size /\ dh[u].etag = seen[u].etag

C8_Idempotence ==
    second =>
       /\ \A u \in Units : ~HasOp(u, "copy")
       /\ Ended => (copied = 0 /\ skipped = Len(objects))

NoObjectWork == idx = 0 /\ \A u \in Units : upc[u] = "idle" /\ ops[u] = <<>>

\* C9 (bucket-config precedence): no goroutine is started and no object-level
\* call is issued before syncBucketConfig returned nil and the listing was
\* collected in full; the listing itself starts only after syncBucketConfig
\* returned nil.
C9_ConfigPrecedence ==
    /\ ~NoObjectWork =>
          /\ cfgErr = NoErr
          /\ ~listErr
          /\ Len(objects) = nsrc
          /\ pc \in {"dispatch", "wait", "success", "failed"}
    /\ (pc = "list" \/ objects # <<>> \/ listErr) => cfgErr = NoErr

\* Witness of C9: a copy call was issued for an object of a two-page listing.
C9_Witness ==
    /\ Len(objects) = 2
    /\ \E u \in Units : HasOp(u, "copy")

\* C10 (fatal pre-object phases): when syncBucketConfig returned an error or
\* a page request failed, the run ends in failure and no goroutine is ever
\* started, whatever part of the listing was collected.
C10_FatalPreObjectPhases ==
    /\ cfgErr \notin {NoErr, NotReturned} =>
          /\ pc \in {"cfgReturned", "fatalConfig"}
          /\ objects = <<>>
          /\ NoObjectWork
    /\ listErr =>
          /\ pc = "fatalList"
          /\ NoObjectWork

\* Witness of C10: the request of a later page failed after an earlier page
\* had been collected.
C10_Witness ==
    /\ pc = "fatalList"
    /\ objects # <<>>
    /\ Len(objects) < nsrc

\* ------------------------------------------- properties of syncBucketConfig
\* The calls of syncBucketConfig in the order of the source text.
CfgCalls == <<"CreateBucket", "GetBucketPolicy", "PutBucketPolicy",
              "GetBucketVersioning", "PutBucketVersioning",
              "GetBucketLifecycleConfiguration", "PutBucketLifecycleConfiguration">>
CfgRank(c) == CHOOSE j \in 1..Len(CfgCalls) : CfgCalls[j] = c
CfgCalled(c) == \E j \in 1..Len(cfgLog) : cfgLog[j] = c

\* The sub-step names the errors of syncBucketConfig carry.
CfgErrOps == {"create destination bucket", "get source bucket policy",
              "sync bucket policy", "get source bucket versioning",
              "sync bucket versioning", "get source lifecycle configuration",
              "sync lifecycle rules"}

\* syncBucketConfig was entered and is over: it returned, or it crashed.
CfgOver == pc \in {"cfgReturned", "fatalConfig", "panic"}

\* The j-th call was the get of an optional feature and it reported that the
\* feature is not configured.
NotConfiguredAt(j) ==
    \/ cfgLog[j] = "GetBucketPolicy" /\ Contains(cfgOut[j].err, "NoSuchBucketPolicy")
    \/ cfgLog[j] = "GetBucketLifecycleConfiguration"
          /\ Contains(cfgOut[j].err, "NoSuchLifecycleConfiguration")

\* C11 (config sync is total): for every combination of outcomes of its
\* calls syncBucketConfig ends by returning success or an error that names
\* the failed sub-step; it never crashes on the text of an absent error.
C11_ConfigSyncTotal ==
    /\ pc # "panic"
    /\ pc \in {"cfgReturned", "fatalConfig"} =>
          \/ cfgErr = NoErr
          \/ cfgErr.op \in CfgErrOps /\ cfgErr.cause = cfgOut[Len(cfgOut)].err

\* C12 (not-configured is skipped silently): after a get of the policy or of
\* the lifecycle rules that reports not-configured, the matching put is never
\* issued, the phase goes on with the next sub-step, and when every other
\* call succeeded syncBucketConfig returns success.
C12_NotConfiguredSkipped ==
    \A j \in 1..Len(cfgLog) : NotConfiguredAt(j) =>
        /\ cfgLog[j] = "GetBucketPolicy" =>
              /\ ~CfgCalled("PutBucketPolicy")
              /\ IF j = Len(cfgLog) THEN pc = "cfgGetVersioning"
                 ELSE cfgLog[j + 1] = "GetBucketVersioning"
        /\ cfgLog[j] = "GetBucketLifecycleConfiguration" =>
              /\ ~CfgCalled("PutBucketLifecycleConfiguration")
              /\ j = Len(cfgLog)
              /\ pc = "cfgReturned"
        /\ (CfgOver /\ \A i \in 1..Len(cfgLog) : i # j => cfgOut[i].err = NilText) =>
              /\ pc = "cfgReturned"
              /\ cfgErr = NoErr

\* ------------------------------------------------ properties of the units
\* The destination head of u failed and its error text carries neither of
\* the not-found indicators.
HeadHardError(u) ==
    /\ dh[u].called
    /\ dh[u].err # NilText
    /\ ~Contains(dh[u].err, "NotFound")
    /\ ~Contains(dh[u].err, "404")

\* C13 (hard detection errors): a destination head that fails without a
\* not-found indicator makes the unit return an error for its key; the unit
\* issues no other call (no copy), reads no size or tag to compare, and
\* increments neither counter.
C13_HardDetectionError ==
    \A u \in Units : HeadHardError(u) =>
        /\ ret[u] = Errorf("head destination object", objects[u].key, dh[u].err)
        /\ ops[u] = <<"dhead">>
        /\ seen[u] = NoSeen
        /\ cnt[u] = "none"
        /\ upc[u] \in {"release", "return", "done"}

\* Witness of C13: the head of a unit was refused with AccessDenied while the
\* group was not cancelled, and the unit has returned.
C13_Witness ==
    \E u \in Units :
        /\ HeadHardError(u)
        /\ dh[u].err = ForbiddenText
        /\ upc[u] = "done"
        /\ firstFail = u

\* A slot is on its way to the waiting unit u: it was granted one, or a unit
\* that holds or was granted a slot is still to give it back, or the group
\* is cancelled and Acquire returns the context's error.
SlotComing(u) == u \in ready \/ ready # {} \/ Holding # {} \/ cancelled

\* The steps a goroutine has left at most, by its position.
UnitLeft(u) ==
    CASE upc[u] = "idle" -> 16
      [] upc[u] = "acquire" -> 15
      [] upc[u] = "waiting" -> 14
      [] upc[u] = "dhead" -> 13
      [] upc[u] = "shead" -> 12
      [] upc[u] = "tags" -> 11
      [] upc[u] = "copy" -> 10
      [] upc[u] = "verify" -> 9
      [] upc[u] \in {"lockC", "lockS"} -> 8
      [] upc[u] \in {"incC", "incS"} -> 7
      [] upc[u] = "bar" -> 6
      [] upc[u] = "unlock" -> 5
      [] upc[u] = "release" -> 4
      [] upc[u] = "return" -> 3
      [] OTHER -> 0

RECURSIVE UnitsLeft(_)
UnitsLeft(n) == IF n = 0 THEN 0 ELSE UnitLeft(n) + UnitsLeft(n - 1)

\* The steps the run has left at most once the dispatch loop is entered.
StepsLeft ==
    (IF pc = "dispatch" THEN 2 ELSE IF pc = "wait" THEN 1 ELSE 0) + UnitsLeft(MaxObjs)

\* A step inside the loop or the wait takes one off the steps left.
StepTaken == pc \in {"dispatch", "wait"} => StepsLeft' < StepsLeft

\* Main or a goroutine is able to take a step.
CanStep == ENABLED MainStep \/ \E u \in Units : ENABLED Unit(u)

\* C15 (termination): with every remote call returning and fair scheduling,
\* once the dispatch loop is entered all units finish and g.Wait() returns,
\* in success or after a failure; no unit waits for a slot that is never
\* released.  Stated as what a finite run refutes: a waiting unit always has
\* a slot coming, until Wait has returned main or a goroutine can always
\* take a step, every step of main or of a goroutine takes one off the steps
\* left, and Wait returns only with every unit done.  Under FairSpec, which
\* lets main and every goroutine go on while they can, a run that has entered
\* the loop therefore reaches Ended with every unit done, after StepsLeft
\* steps at most.
C15_Termination ==
    /\ [](\A u \in Units : upc[u] = "waiting" => SlotComing(u))
    /\ [](pc \in {"dispatch", "wait"} => CanStep)
    /\ [][StepTaken]_vars
    /\ [](Ended => \A u \in 1..Len(objects) : upc[u] = "done")

\* Witness of C15: a unit queues for a slot while the group is cancelled.
C15_Witness ==
    \E u \in Units :
        /\ upc[u] = "waiting"
        /\ cancelled
        /\ pc = "wait"

\* The waiting units whose slot was granted and that have not yet woken up.
Granted == {u \in Units : upc[u] = "waiting" /\ u \in ready}

\* C16 (slot accounting): a unit issues remote calls only after Acquire
\* returned nil; the slots in use are exactly those of the units between
\* their Acquire and their Release (a unit that acquired gives its slot back
\* once, a unit whose Acquire failed gives back nothing), so the count is
\* never negative, never above the ceiling, and 0 once all units finished.
C16_SlotAccounting ==
    /\ cur >= 0
    /\ cur <= Concurrency
    /\ cur = Cardinality(Holding) + Cardinality(Granted)
    /\ \A u \in Units :
          /\ ops[u] # <<>> => upc[u] \notin NotAdmittedPcs
          /\ ret[u].op = "acquire semaphore" =>
                /\ upc[u] \in {"return", "done"}
                /\ ops[u] = <<>>
    /\ (pc \in {"wait", "success", "failed"} /\ \A u \in 1..Len(objects) : upc[u] = "done") =>
          /\ cur = 0
          /\ waiters = <<>>
          /\ ready = {}

\* Witness of C16: all units are done, one after a copy, one after an error
\* of its destination head and one release each.
C16_Witness ==
    /\ pc = "wait"
    /\ Len(objects) = 2
    /\ \A u \in Units : upc[u] = "done"
    /\ \E u, v \in Units :
          /\ cnt[u] = "copied"
          /\ ret[v].op = "head destination object"

\* The positions between mu.Lock() and mu.Unlock().
SectionPcs == {"incC", "incS", "bar", "unlock"}

\* C17 (progress accounting): the bar is advanced once for every object
\* counted as copied or skipped, inside the critical section of the counter
\* increment, and never for a unit that returns an error; while no unit is in
\* the section bar = copied + skipped <= total, and at the end bar = total
\* exactly when the run succeeded.
C17_ProgressAccounting ==
    /\ \A u \in Units : upc[u] \in SectionPcs <=> mu = u
    /\ mu = 0 => bar = copied + skipped
    /\ mu # 0 => bar + (IF upc[mu] = "bar" THEN 1 ELSE 0) = copied + skipped
    /\ bar = Cardinality({u \in Units : cnt[u] # "none" /\ upc[u] # "bar"})
    /\ \A u \in Units : IsErr(ret[u]) => cnt[u] = "none"
    /\ bar <= Len(objects)
    /\ copied + skipped <= Len(objects)
    /\ Ended => (bar = Len(objects) <=> pc = "success")

\* Witness of C17: a unit is about to advance the bar while another one
\* waits for the mutex.
C17_Witness ==
    \E u, v \in Units :
        /\ upc[u] = "bar"
        /\ upc[v] \in {"lockC", "lockS"}
        /\ copied + skipped = bar + 1

\* The remote calls of copyAndVerifyObject in the order of the source text,
\* and the sub-step each error of it names.
CopySteps == <<"shead", "tags", "copy", "vhead">>
StepOp(step) ==
    CASE step = "shead" -> "head source object"
      [] step = "tags"  -> "get source object tags"
      [] step = "copy"  -> "copy object"
      [] step = "vhead" -> "verify copied object"

\* C18 (step order): after its destination head a copying unit issues source
\* head, tag fetch, copy and destination re-head in this order; the call that
\* returns an error is the last one the unit issues, and the unit ends with
\* the error of that step and is not counted.
C18_StepOrder ==
    \A u \in Units :
        LET c == IF ops[u] = <<>> THEN <<>> ELSE Tail(ops[u]) IN
        /\ ops[u] # <<>> => ops[u][1] = "dhead"
        /\ Len(c) <= Len(CopySteps)
        /\ \A j \in 1..Len(c) : c[j] = CopySteps[j]
        /\ stepErr[u] # "" =>
              /\ c # <<>>
              /\ c[Len(c)] = stepErr[u]
              /\ ret[u].op = StepOp(stepErr[u])
              /\ cnt[u] = "none"
              /\ upc[u] \in {"release", "return", "done"}

\* Witness of C18: the copy call of a unit was refused after its source head
\* and its tag fetch had succeeded.
C18_Witness ==
    \E u \in Units :
        /\ stepErr[u] = "copy"
        /\ ret[u].cause = ForbiddenText
        /\ ops[u] = <<"dhead", "shead", "tags", "copy">>
        /\ upc[u] = "done"

\* The j-th call of syncBucketConfig returned an error the code does not
\* tolerate.
CfgAborts(j) ==
    /\ cfgOut[j].err # NilText
    /\ cfgLog[j] = "CreateBucket" =>
          /\ ~Contains(cfgOut[j].err, "BucketAlreadyOwnedByYou")
          /\ ~Contains(cfgOut[j].err, "BucketAlreadyExists")
    /\ ~NotConfiguredAt(j)

\* The sub-step an error of the call c names.
CfgOpOf(c) ==
    CASE c = "CreateBucket" -> "create destination bucket"
      [] c = "GetBucketPolicy" -> "get source bucket policy"
      [] c = "PutBucketPolicy" -> "sync bucket policy"
      [] c = "GetBucketVersioning" -> "get source bucket versioning"
      [] c = "PutBucketVersioning" -> "sync bucket versioning"
      [] c = "GetBucketLifecycleConfiguration" -> "get source lifecycle configuration"
      [] c = "PutBucketLifecycleConfiguration" -> "sync lifecycle rules"

\* The call issued after the j-th one, or "" when none was issued yet.
CfgNextCall(j) == IF j < Len(cfgLog) THEN cfgLog[j + 1] ELSE ""

\* C19 (sub-step order and abort): syncBucketConfig issues its calls in the
\* order create, policy, versioning, lifecycle; an error of create other than
\* exists/owned, an error of a get other than not-configured and any error
\* of a put end the phase with the error of that sub-step, so that no later
\* call is issued; a put follows only a get that returned a value, and the
\* versioning put follows every successful versioning get.
C19_ConfigOrder ==
    /\ Len(cfgOut) = Len(cfgLog)
    /\ cfgLog # <<>> => cfgLog[1] = "CreateBucket"
    /\ \A i, j \in 1..Len(cfgLog) : i < j => CfgRank(cfgLog[i]) < CfgRank(cfgLog[j])
    /\ \A j \in 1..Len(cfgLog) :
          /\ CfgAborts(j) =>
                /\ j = Len(cfgLog)
                /\ pc \in {"cfgReturned", "fatalConfig"}
                /\ cfgErr = Errorf(CfgOpOf(cfgLog[j]), 0, cfgOut[j].err)
          /\ cfgLog[j] \in {"PutBucketPolicy", "PutBucketLifecycleConfiguration"} =>
                /\ j > 1
                /\ CfgRank(cfgLog[j - 1]) = CfgRank(cfgLog[j]) - 1
                /\ cfgOut[j - 1] = CfgOk
          /\ (cfgLog[j] = "GetBucketVersioning" /\ cfgOut[j].err = NilText) =>
                IF j = Len(cfgLog) THEN pc = "cfgPutVersioning"
                ELSE CfgNextCall(j) = "PutBucketVersioning"
          /\ (\/ cfgLog[j] = "PutBucketPolicy" /\ cfgOut[j].err = NilText
              \/ cfgLog[j] = "GetBucketPolicy" /\ NotConfiguredAt(j)) =>
                IF j = Len(cfgLog) THEN pc = "cfgGetVersioning"
                ELSE CfgNextCall(j) = "GetBucketVersioning"

\* Witness of C19: the versioning put was refused after the policy had been
\* written; the run stops with no lifecycle call issued.
C19_Witness ==
    /\ pc = "fatalConfig"
    /\ CfgCalled("PutBucketPolicy")
    /\ cfgLog[Len(cfgLog)] = "PutBucketVersioning"
    /\ cfgErr.op = "sync bucket versioning"

====
